---- MODULE Spec2Model ----
(***************************************************************************)
(* A model of rust-pcre (src/pcre/mod.rs): the Pcre wrapper around a       *)
(* reference-counted native compiled pattern, its optional extra block,    *)
(* and the MatchIterator that shares both.                                 *)
(*                                                                         *)
(* The native engine (module `detail`, libpcre) is not part of mod.rs; it  *)
(* is modelled from its documented contract: Engine_* definitions.         *)
(***************************************************************************)
EXTENDS Integers, Sequences, FiniteSets, TLC

VARIABLES
    pcre,       \* the Pcre value: state, code, extra, capture_count_, mark_
    code,       \* the native compiled pattern: pattern, refcount, frees
    heap,       \* the extra blocks the engine's study has returned, by address
    it,         \* the MatchIterator values, by slot
    subject,    \* the subject string the caller holds
    ret,        \* what the last state-changing operation returned, and for
                \* next() what the engine was handed
    held,       \* a Match the caller has kept from a next() call, with what
                \* the caller read in it when it was returned
    passed      \* the extra block an iterator passed to the engine at an
                \* earlier next() call, as noted then

vars == <<pcre, code, heap, it, subject, ret, held, passed>>

(***************************************************************************)
(* Bounds of the model.                                                    *)
(***************************************************************************)
MaxLen == 2        \* longest subject string
MaxIters == 2      \* MatchIterator values created in one behaviour
MaxStudy == 2      \* extra blocks the engine's study returns in one behaviour
MaxNames == 3      \* entries of an engine name table

Iters == 1..MaxIters
NULL == 0
Zeros(n) == [k \in 1..n |-> 0]
Max(a, b) == IF a < b THEN b ELSE a

RECURSIVE SeqsUpTo(_, _)
SeqsUpTo(S, n) ==
    IF n = 0 THEN {<<>>}
    ELSE LET shorter == SeqsUpTo(S, n - 1)
         IN  shorter \cup {Append(s, x) : s \in shorter, x \in S}

Subjects == SeqsUpTo({"a", "b"}, MaxLen)

(***************************************************************************)
(* The patterns compiled in this model, as the engine sees them: source    *)
(* text and name table (the <<group number, name>> entries, names as byte  *)
(* strings).                                                               *)
(***************************************************************************)
Pat(src) == [src |-> src, names |-> <<>>]
MatchPatterns == {Pat("a*"), Pat("(a)?b")}
BadPatterns == {Pat("(")}
\* A pattern with a null byte inside: the text before it, the text after it.
PatNul(before, after) == [src |-> before, names |-> <<>>, after_nul |-> after]
NulPatterns == {PatNul("a*", "b")}
Patterns == MatchPatterns \cup BadPatterns \cup NulPatterns

ExecOptionSets == {{}, {"ExecAnchored"}}
StudyOptionSets == {{}, {"StudyExtraNeeded"}}
Limits == {0, 5}

(***************************************************************************)
(* The engine: pcre_compile, pcre_fullinfo, pcre_refcount, pcre_study,     *)
(* pcre_free_study, pcre_free, pcre_exec.                                  *)
(***************************************************************************)
PCRE_ERROR_NOMATCH == -1
PCRE_ERROR_MATCHLIMIT == -8

\* pcre_compile: a handle, or (message, offset).
Engine_compile(p) ==
    IF p \in BadPatterns
      THEN [ok |-> FALSE, opt_err |-> "missing )", erroffset |-> 1]
      ELSE [ok |-> TRUE, opt_err |-> "", erroffset |-> 0]

RECURSIVE MaxGroup(_)
MaxGroup(names) ==
    IF names = <<>> THEN 0 ELSE Max(Head(names)[1], MaxGroup(Tail(names)))

\* pcre_fullinfo(PCRE_INFO_CAPTURECOUNT)
Engine_capturecount(p) ==
    IF p.src = "(a)?b" THEN 1
    ELSE IF p.src = "named" THEN MaxGroup(p.names)
    ELSE 0

\* pcre_fullinfo(PCRE_INFO_NAMECOUNT, PCRE_INFO_NAMEENTRYSIZE, PCRE_INFO_NAMETABLE):
\* the table is name_count entries of name_entry_size bytes each, the group
\* number in two bytes, most significant first, then the name, zero-terminated
\* and zero-padded to the size of the longest.
RECURSIVE MaxNameLen(_)
MaxNameLen(names) ==
    IF names = <<>> THEN 0 ELSE Max(Len(Head(names)[2]), MaxNameLen(Tail(names)))
Engine_namecount(p) == Len(p.names)
Engine_nameentrysize(p) == MaxNameLen(p.names) + 3
RECURSIVE Engine_nametable_bytes(_, _)
Engine_nametable_bytes(names, size) ==
    IF names = <<>> THEN <<>>
    ELSE LET e == Head(names)
         IN  <<e[1] \div 256, e[1] % 256>> \o e[2] \o Zeros(size - 2 - Len(e[2]))
             \o Engine_nametable_bytes(Tail(names), size)
Engine_nametable(p) == Engine_nametable_bytes(p.names, Engine_nameentrysize(p))

\* pcre_refcount(code, delta): the new count; delta 0 reads it.
Engine_refcount(c, delta) == [c EXCEPT !.refcount = Max(0, c.refcount + delta)]

\* pcre_free(code); `freedBy` is the owner whose drop made the call: 0 for the
\* Pcre, i for iterator i (-1 while nobody has).
Engine_free(c, who) == [c EXCEPT !.freed = c.freed + 1, !.freedBy = who]

\* pcre_free_study(extra): nothing for a null pointer. The contents of a freed
\* block are gone; what is kept is the number of times it was freed and
\* `freedAt`, the number of study calls the engine had served when it was freed
\* last (0 while it has not been freed).
FreedExtra ==
    [freed |-> 1, flags |-> {}, match_limit_ |-> 0, match_limit_recursion_ |-> 0,
     mark |-> "null", freedAt |-> 0]
Engine_free_study(h, e) ==
    IF e = NULL THEN h
    ELSE [h EXCEPT ![e] = [FreedExtra EXCEPT !.freed = h[e].freed + 1,
                                             !.freedAt = code.studies]]

\* pcre_study: a new extra block holding study data, or null when the pattern
\* gives nothing to study and no block was asked for.
Engine_studyable(p) == p.src = "(a)?b"
Engine_study_gives_block(p, options) ==
    Engine_studyable(p) \/ "StudyExtraNeeded" \in options
NewExtra ==
    [freed |-> 0, flags |-> {"ExtraStudyData"}, match_limit_ |-> 0,
     match_limit_recursion_ |-> 0, mark |-> "null", freedAt |-> 0]

\* One attempt of pattern p at position pos of s (0-based byte offsets): the
\* result code and the 2*(capture_count+1) offsets the engine reports, unset
\* groups as -1.
RECURSIVE RunOfA(_, _)
RunOfA(s, pos) ==
    IF pos < Len(s) /\ s[pos + 1] = "a" THEN 1 + RunOfA(s, pos + 1) ELSE 0

NoMatchAt == [rc |-> PCRE_ERROR_NOMATCH, ov |-> <<>>]
Engine_match_at(p, s, pos) ==
    IF p.src = "a*" THEN
        [rc |-> 1, ov |-> <<pos, pos + RunOfA(s, pos)>>]
    ELSE IF p.src = "(a)?b" THEN
        IF pos + 1 < Len(s) /\ s[pos + 1] = "a" /\ s[pos + 2] = "b"
          THEN [rc |-> 2, ov |-> <<pos, pos + 2, pos, pos + 1>>]
        ELSE IF pos < Len(s) /\ s[pos + 1] = "b"
          THEN [rc |-> 1, ov |-> <<pos, pos + 1, -1, -1>>]
        ELSE NoMatchAt
    ELSE NoMatchAt

\* The leftmost position from `from` on where p matches, Len(s)+1 if none.
RECURSIVE FirstMatchPos(_, _, _)
FirstMatchPos(p, s, from) ==
    IF from > Len(s) THEN Len(s) + 1
    ELSE IF Engine_match_at(p, s, from).rc >= 0 THEN from
    ELSE FirstMatchPos(p, s, from + 1)

\* ovector with its first Len(ov) entries overwritten by ov
Overwrite(ovector, ov) ==
    [k \in 1..Len(ovector) |-> IF k <= Len(ov) THEN ov[k] ELSE ovector[k]]

\* pcre_exec(code, extra, subject, length, startoffset, options, ovector, ovecsize):
\* the result code and the offset vector as the engine leaves it. A match limit
\* in force that is smaller than the cost of an attempt ends the call with
\* PCRE_ERROR_MATCHLIMIT. The engine reports offsets in the first two thirds of
\* the vector: with room for fewer pairs than it captured, it writes the pairs
\* that fit and returns 0.
MatchCost == 1
Engine_exec(p, extra, s, startoffset, options, ovector) ==
    LET limited == extra # NULL /\ "ExtraMatchLimit" \in heap[extra].flags
                   /\ heap[extra].match_limit_ < MatchCost
        pos == IF "ExecAnchored" \in options
                 THEN (IF Engine_match_at(p, s, startoffset).rc >= 0
                         THEN startoffset ELSE Len(s) + 1)
                 ELSE FirstMatchPos(p, s, startoffset)
    IN  IF limited THEN [rc |-> PCRE_ERROR_MATCHLIMIT, ovector |-> ovector]
        ELSE IF pos > Len(s) THEN [rc |-> PCRE_ERROR_NOMATCH, ovector |-> ovector]
        ELSE LET m == Engine_match_at(p, s, pos)
                 pairs == Len(ovector) \div 3
             IN  IF m.rc > pairs
                   THEN [rc |-> 0,
                         ovector |-> Overwrite(ovector, SubSeq(m.ov, 1, 2 * pairs))]
                   ELSE [rc |-> m.rc,
                         ovector |-> Overwrite(ovector,
                                       SubSeq(m.ov, 1, IF Len(m.ov) < 2 * pairs
                                                         THEN Len(m.ov) ELSE 2 * pairs))]

(***************************************************************************)
(* Values of the wrapper.                                                  *)
(***************************************************************************)
\* A call that fails its task (fail!, a failed assertion or bounds check), and
\* one that returns v.
Failure == [failed |-> TRUE]
Ok(v) == [failed |-> FALSE, v |-> v]
None == [kind |-> "none"]
\* struct Match: partial_ovector and string_count_ (the subject is borrowed).
\* partial_ovector is a Vec of the Match's own, made by Vec::from_slice: it
\* borrows the offset vector of no iterator (`borrows` 0).
Match(ovector, capture_count, rc) ==
    [kind |-> "match",
     partial_ovector |-> SubSeq(ovector, 1, (capture_count + 1) * 2),
     string_count_ |-> rc,
     borrows |-> 0]
NoMatchHeld == [kept |-> FALSE]
NothingPassed == [noted |-> FALSE]
\* What a null extra pointer holds.
NoBlock == [absent |-> TRUE]

NoPcre == [state |-> "none", code |-> NULL, extra |-> NULL, capture_count_ |-> 0,
           mark_ |-> NULL]
NoCode == [pattern |-> Pat(""), refcount |-> 0, freed |-> 0, freedBy |-> -1,
           studies |-> 0]
\* struct MatchIterator, and what its caller has seen of it: `lastrc`, how its
\* last next() call ended ("match", "nomatch", "error"; "nocall" when fresh from
\* matches(), "cloned" when fresh from clone()), and `lastend`, the group-0 end
\* offset of the last Match it emitted.
Unused == [state |-> "unused", code |-> NULL, extra |-> NULL, capture_count |-> 0,
           subject |-> <<>>, offset |-> 0, options |-> {}, ovector |-> <<>>,
           lastrc |-> "nocall", lastend |-> 0]
Dropped == [Unused EXCEPT !.state = "dropped"]
Returned(op, by, val) == [op |-> op, by |-> by, val |-> val]
Unit == Returned("unit", 0, 0)

Alive(i) == it[i].state = "alive"
FreeSlots == {i \in Iters : it[i].state = "unused"}
NextSlot == CHOOSE i \in FreeSlots : \A j \in FreeSlots : i <= j

\* The outcomes of pcre_exec: the engine's result, or, on a freed handle or a
\* freed extra block, whatever the freed memory makes of it.
ExecOutcomes(e, s, startoffset, options, ovector) ==
    LET r == Engine_exec(code.pattern, e, s, startoffset, options, ovector)
    IN  IF code.freed = 0 /\ (e = NULL \/ heap[e].freed = 0)
          THEN {r}
          ELSE {r, [rc |-> PCRE_ERROR_NOMATCH, ovector |-> ovector]}

Init ==
    /\ pcre = NoPcre
    /\ code = NoCode
    /\ heap = <<>>
    /\ it = [i \in Iters |-> Unused]
    /\ subject \in Subjects
    /\ ret = Returned("init", 0, 0)
    /\ held = NoMatchHeld
    /\ passed = NothingPassed

(***************************************************************************)
(* impl Pcre                                                               *)
(***************************************************************************)
\* The Ok arm of compile_with_options: a reference taken on the new handle,
\* no extra block, the capture count asked of the engine.
CompiledCode(pattern) == Engine_refcount([NoCode EXCEPT !.pattern = pattern], 1)
CompiledPcre(pattern) ==
    [state |-> "alive", code |-> 1, extra |-> NULL,
     capture_count_ |-> Engine_capturecount(pattern), mark_ |-> NULL]
CompileOk == Returned("compile", 0, [ok |-> TRUE, erroffset |-> 0])

\* pattern.with_c_str(f) runs f on a null-terminated copy of the pattern, and
\* fails the task instead when the pattern has a null byte inside; a reader of
\* the C string sees the bytes before the first null byte.
has_interior_nul(pattern) == "after_nul" \in DOMAIN pattern
c_str(pattern) == [src |-> pattern.src, names |-> pattern.names]

\* Mutant: the pattern is made a C string without the check for null bytes.
Pcre_compile_with_options_Unchecked(pattern) ==
    /\ pcre.state = "none"
    /\ LET pattern_c_str == c_str(pattern)
           r == Engine_compile(pattern_c_str)
       IN  IF ~r.ok
             THEN /\ pcre' = [pcre EXCEPT !.state = "failed"]
                  /\ ret' = Returned("compile", 0, [ok |-> FALSE, erroffset |-> r.erroffset])
                  /\ UNCHANGED code
             ELSE /\ code' = CompiledCode(pattern_c_str)
                  /\ pcre' = CompiledPcre(pattern_c_str)
                  /\ ret' = CompileOk
    /\ UNCHANGED <<heap, it, subject, held, passed>>

Pcre_compile_with_options(pattern) ==
    /\ pcre.state = "none"
    /\ IF has_interior_nul(pattern)
         THEN /\ pcre' = [pcre EXCEPT !.state = "failed"]
              /\ ret' = Returned("compile", 0, Failure)
              /\ UNCHANGED code
         ELSE LET pattern_c_str == c_str(pattern)
                  r == Engine_compile(pattern_c_str)
              IN  IF ~r.ok
                    THEN /\ pcre' = [pcre EXCEPT !.state = "failed"]
                         /\ ret' = Returned("compile", 0,
                                             [ok |-> FALSE, erroffset |-> r.erroffset])
                         /\ UNCHANGED code
                    ELSE /\ code' = CompiledCode(pattern_c_str)
                         /\ pcre' = CompiledPcre(pattern_c_str)
                         /\ ret' = CompileOk
    /\ UNCHANGED <<heap, it, subject, held, passed>>

\* capture_count(&self): reads, changes nothing.
capture_count == pcre.capture_count_
Pcre_capture_count ==
    /\ pcre.state = "alive"
    /\ UNCHANGED vars

\* Mutant: the flags word is assigned, not or-ed into.
PcreExtra_set_mark_Assign(block, mark) ==
    [block EXCEPT !.flags = {"ExtraMark"}, !.mark = mark]

PcreExtra_set_mark(block, mark) ==
    [block EXCEPT !.flags = block.flags \cup {"ExtraMark"}, !.mark = mark]

Pcre_enable_mark ==
    /\ pcre.state = "alive"
    /\ IF pcre.extra = NULL
         THEN /\ ret' = Returned("enable_mark", 0, FALSE)
              /\ UNCHANGED heap
         ELSE /\ heap' = [heap EXCEPT
                            ![pcre.extra] = PcreExtra_set_mark(heap[pcre.extra], "pcre.mark_")]
              /\ ret' = Returned("enable_mark", 0, TRUE)
    /\ UNCHANGED <<pcre, code, it, subject, held, passed>>

\* Mutant: the offset vector is given two entries for each group, not three.
exec_from_with_options_SmallVector(s, startoffset, options) ==
    LET ovecsize == (pcre.capture_count_ + 1) * 2
        r == Engine_exec(code.pattern, pcre.extra, s, startoffset, options, Zeros(ovecsize))
    IN  IF r.rc >= 0 THEN Match(r.ovector, pcre.capture_count_, r.rc) ELSE None

\* exec_from_with_options(&self, subject, startoffset, options): a fresh offset
\* vector, one engine call, Some(Match) or None. Reads, changes nothing.
exec_from_with_options(s, startoffset, options) ==
    LET ovecsize == (pcre.capture_count_ + 1) * 3
        r == Engine_exec(code.pattern, pcre.extra, s, startoffset, options, Zeros(ovecsize))
    IN  IF r.rc >= 0 THEN Match(r.ovector, pcre.capture_count_, r.rc) ELSE None
exec_from(s, startoffset) == exec_from_with_options(s, startoffset, {})
exec(s) == exec_from(s, 0)

Pcre_exec_from_with_options(startoffset, options) ==
    /\ pcre.state = "alive"
    /\ startoffset \in 0..Len(subject)
    /\ exec_from_with_options(subject, startoffset, options).kind \in {"match", "none"}
    /\ UNCHANGED vars

\* Mutant: the iterator is handed the handle without taking a reference.
Pcre_matches_with_options_NoRef(options) ==
    /\ pcre.state = "alive"
    /\ FreeSlots # {}
    /\ LET ovecsize == (pcre.capture_count_ + 1) * 3
       IN  it' = [it EXCEPT ![NextSlot] =
                    [state |-> "alive", code |-> pcre.code, extra |-> pcre.extra,
                     capture_count |-> pcre.capture_count_, subject |-> subject,
                     offset |-> 0, options |-> options, ovector |-> Zeros(ovecsize),
                     lastrc |-> "nocall", lastend |-> 0]]
    /\ ret' = Returned("matches", NextSlot, 0)
    /\ UNCHANGED <<pcre, code, heap, subject, held, passed>>

\* mark(&self): None while mark_ is null. Reads, changes nothing.
mark == IF pcre.mark_ = NULL THEN [some |-> FALSE] ELSE [some |-> TRUE]
Pcre_mark ==
    /\ pcre.state = "alive"
    /\ mark.some \in BOOLEAN
    /\ UNCHANGED vars

Pcre_matches_with_options(options) ==
    /\ pcre.state = "alive"
    /\ FreeSlots # {}
    /\ LET ovecsize == (pcre.capture_count_ + 1) * 3
       IN  it' = [it EXCEPT ![NextSlot] =
                    [state |-> "alive", code |-> pcre.code, extra |-> pcre.extra,
                     capture_count |-> pcre.capture_count_, subject |-> subject,
                     offset |-> 0, options |-> options, ovector |-> Zeros(ovecsize),
                     lastrc |-> "nocall", lastend |-> 0]]
    /\ code' = Engine_refcount(code, 1)
    /\ ret' = Returned("matches", NextSlot, 0)
    /\ UNCHANGED <<pcre, heap, subject, held, passed>>

\* name_count(&self): pcre_fullinfo(PCRE_INFO_NAMECOUNT). Reads, changes nothing.
name_count == Engine_namecount(code.pattern)
Pcre_name_count ==
    /\ pcre.state = "alive"
    /\ name_count >= 0
    /\ UNCHANGED vars

\* The nul-terminated string at tab[at], tab[at+1], ... (1-based `at`)
RECURSIVE CStr(_, _)
CStr(tab, at) ==
    IF at > Len(tab) \/ tab[at] = 0 THEN <<>> ELSE <<tab[at]>> \o CStr(tab, at + 1)

\* Mutant: a name met again replaces its entry instead of adding to it.
RECURSIVE name_table_loop_Overwrite(_, _, _, _, _, _)
name_table_loop_Overwrite(i, count, tab, tabptr, name_entry_size, table) ==
    IF ~(i < count) THEN table
    ELSE LET n == (tab[tabptr + 1] * 256) + tab[tabptr + 2]
             name == CStr(tab, tabptr + 3)
             inserted == [k \in DOMAIN table \cup {name} |->
                             IF k = name THEN <<n>> ELSE table[k]]
         IN  name_table_loop_Overwrite(i + 1, count, tab, tabptr + name_entry_size,
                                       name_entry_size, inserted)

\* The loop of name_table(): `tabptr` is a 0-based offset into the engine's table.
RECURSIVE name_table_loop(_, _, _, _, _, _)
name_table_loop(i, count, tab, tabptr, name_entry_size, table) ==
    IF ~(i < count) THEN table
    ELSE LET n == (tab[tabptr + 1] * 256) + tab[tabptr + 2]
             name == CStr(tab, tabptr + 3)
             inserted ==
                 IF name \notin DOMAIN table
                   THEN [k \in DOMAIN table \cup {name} |->
                            IF k = name THEN <<n>> ELSE table[k]]
                   ELSE [table EXCEPT ![name] = Append(table[name], n)]
         IN  name_table_loop(i + 1, count, tab, tabptr + name_entry_size,
                             name_entry_size, inserted)

\* name_table(&self): the BTreeMap<String, Vec<usize>>, as a function from names
\* to sequences of group numbers. Reads, changes nothing.
EmptyMap == [k \in {} |-> <<>>]
name_table ==
    name_table_loop(0, name_count, Engine_nametable(code.pattern), 0,
                    Engine_nameentrysize(code.pattern), EmptyMap)
Pcre_name_table ==
    /\ pcre.state = "alive"
    /\ DOMAIN name_table \subseteq Seq(Int)
    /\ UNCHANGED vars

\* Mutant: study without the check that the Pcre is the only owner.
Pcre_study_with_options_NoCheck(options) ==
    /\ pcre.state = "alive"
    /\ code.studies < MaxStudy
    /\ code' = [code EXCEPT !.studies = code.studies + 1]
    /\ LET freed == Engine_free_study(heap, pcre.extra)
       IN  IF Engine_study_gives_block(code.pattern, options)
             THEN /\ heap' = Append(freed, NewExtra)
                  /\ pcre' = [pcre EXCEPT !.extra = Len(heap) + 1]
                  /\ ret' = Returned("study", 0, TRUE)
             ELSE /\ heap' = freed
                  /\ pcre' = [pcre EXCEPT !.extra = NULL]
                  /\ ret' = Returned("study", 0, FALSE)
    /\ UNCHANGED <<it, subject, held, passed>>

\* Mutant: the engine studies first, and the previous study data is freed after.
Pcre_study_with_options_StudyFirst(options) ==
    /\ pcre.state = "alive"
    /\ IF Engine_refcount(code, 0).refcount # 1
         THEN /\ ret' = Returned("study", 0, FALSE)
              /\ UNCHANGED <<pcre, code, heap>>
         ELSE /\ code.studies < MaxStudy
              /\ code' = [code EXCEPT !.studies = code.studies + 1]
              /\ LET freed == IF pcre.extra = NULL THEN heap
                              ELSE [heap EXCEPT ![pcre.extra] =
                                      [FreedExtra EXCEPT
                                          !.freed = heap[pcre.extra].freed + 1,
                                          !.freedAt = code.studies + 1]]
                 IN  IF Engine_study_gives_block(code.pattern, options)
                       THEN /\ heap' = Append(freed, NewExtra)
                            /\ pcre' = [pcre EXCEPT !.extra = Len(heap) + 1]
                            /\ ret' = Returned("study", 0, TRUE)
                       ELSE /\ heap' = freed
                            /\ pcre' = [pcre EXCEPT !.extra = NULL]
                            /\ ret' = Returned("study", 0, FALSE)
    /\ UNCHANGED <<it, subject, held, passed>>

\* Mutant: the study is refused only when the count is below 1.
Pcre_study_with_options_AnyCount(options) ==
    /\ pcre.state = "alive"
    /\ IF Engine_refcount(code, 0).refcount < 1
         THEN /\ ret' = Returned("study", 0, FALSE)
              /\ UNCHANGED <<pcre, code, heap>>
         ELSE /\ code.studies < MaxStudy
              /\ code' = [code EXCEPT !.studies = code.studies + 1]
              /\ LET freed == Engine_free_study(heap, pcre.extra)
                 IN  IF Engine_study_gives_block(code.pattern, options)
                       THEN /\ heap' = Append(freed, NewExtra)
                            /\ pcre' = [pcre EXCEPT !.extra = Len(heap) + 1]
                            /\ ret' = Returned("study", 0, TRUE)
                       ELSE /\ heap' = freed
                            /\ pcre' = [pcre EXCEPT !.extra = NULL]
                            /\ ret' = Returned("study", 0, FALSE)
    /\ UNCHANGED <<it, subject, held, passed>>

Pcre_study_with_options(options) ==
    /\ pcre.state = "alive"
    /\ IF Engine_refcount(code, 0).refcount # 1
         THEN /\ ret' = Returned("study", 0, FALSE)
              /\ UNCHANGED <<pcre, code, heap>>
         ELSE /\ code.studies < MaxStudy
              /\ code' = [code EXCEPT !.studies = code.studies + 1]
              /\ LET freed == Engine_free_study(heap, pcre.extra)
                 IN  IF Engine_study_gives_block(code.pattern, options)
                       THEN /\ heap' = Append(freed, NewExtra)
                            /\ pcre' = [pcre EXCEPT !.extra = Len(heap) + 1]
                            /\ ret' = Returned("study", 0, TRUE)
                       ELSE /\ heap' = freed
                            /\ pcre' = [pcre EXCEPT !.extra = NULL]
                            /\ ret' = Returned("study", 0, FALSE)
    /\ UNCHANGED <<it, subject, held, passed>>

\* Mutant: the study data is freed with the Pcre, whoever else still points to it.
Pcre_drop_FreesExtra ==
    /\ pcre.state = "alive"
    /\ LET c == Engine_refcount(code, -1)
       IN  /\ heap' = Engine_free_study(heap, pcre.extra)
           /\ code' = IF c.refcount = 0 THEN Engine_free(c, 0) ELSE c
    /\ pcre' = [pcre EXCEPT !.state = "dropped", !.extra = NULL, !.code = NULL]
    /\ ret' = Unit
    /\ UNCHANGED <<it, subject, held, passed>>

Pcre_drop ==
    /\ pcre.state = "alive"
    /\ LET c == Engine_refcount(code, -1)
       IN  IF c.refcount = 0
             THEN /\ heap' = Engine_free_study(heap, pcre.extra)
                  /\ code' = Engine_free(c, 0)
             ELSE /\ code' = c
                  /\ UNCHANGED heap
    /\ pcre' = [pcre EXCEPT !.state = "dropped", !.extra = NULL, !.code = NULL]
    /\ ret' = Unit
    /\ UNCHANGED <<it, subject, held, passed>>

(***************************************************************************)
(* impl PcreExtra, reached through Pcre::extra()                           *)
(***************************************************************************)
PcreExtra_set_match_limit(block, limit) ==
    [block EXCEPT !.flags = block.flags \cup {"ExtraMatchLimit"},
                  !.match_limit_ = limit]

PcreExtra_set_match_limit_recursion(block, limit) ==
    [block EXCEPT !.flags = block.flags \cup {"ExtraMatchLimitRecursion"},
                  !.match_limit_ = limit]

PcreExtra_unset_mark(block) ==
    [block EXCEPT !.flags = block.flags \ {"ExtraMark"}, !.mark = "null"]

PcreExtra_match_limit(block) ==
    IF "ExtraMatchLimit" \notin block.flags
      THEN [some |-> FALSE, v |-> 0]
      ELSE [some |-> TRUE, v |-> block.match_limit_]

PcreExtra_match_limit_recursion(block) ==
    IF "ExtraMatchLimitRecursion" \notin block.flags
      THEN [some |-> FALSE, v |-> 0]
      ELSE [some |-> TRUE, v |-> block.match_limit_recursion_]

\* extra(&mut self): Some(block) when the Pcre holds one
HasExtra == pcre.state = "alive" /\ pcre.extra # NULL

Extra_set_match_limit(limit) ==
    /\ HasExtra
    /\ heap' = [heap EXCEPT ![pcre.extra] = PcreExtra_set_match_limit(heap[pcre.extra], limit)]
    /\ ret' = Unit
    /\ UNCHANGED <<pcre, code, it, subject, held, passed>>

Extra_set_match_limit_recursion(limit) ==
    /\ HasExtra
    /\ heap' = [heap EXCEPT
                  ![pcre.extra] = PcreExtra_set_match_limit_recursion(heap[pcre.extra], limit)]
    /\ ret' = Unit
    /\ UNCHANGED <<pcre, code, it, subject, held, passed>>

Extra_unset_mark ==
    /\ HasExtra
    /\ heap' = [heap EXCEPT ![pcre.extra] = PcreExtra_unset_mark(heap[pcre.extra])]
    /\ ret' = Unit
    /\ UNCHANGED <<pcre, code, it, subject, held, passed>>

\* match_limit(&self), match_limit_recursion(&self) on the block extra() hands
\* out: read, change nothing.
Extra_match_limit ==
    /\ HasExtra
    /\ PcreExtra_match_limit(heap[pcre.extra]).some \in BOOLEAN
    /\ UNCHANGED vars

Extra_match_limit_recursion ==
    /\ HasExtra
    /\ PcreExtra_match_limit_recursion(heap[pcre.extra]).some \in BOOLEAN
    /\ UNCHANGED vars

(***************************************************************************)
(* impl Clone, Drop, Iterator for MatchIterator                            *)
(***************************************************************************)
\* Mutant: the clone does not carry the capture count over.
MatchIterator_clone_NoCount(i) ==
    /\ Alive(i)
    /\ FreeSlots # {}
    /\ it' = [it EXCEPT ![NextSlot] =
                [state |-> "alive", code |-> it[i].code, extra |-> it[i].extra,
                 capture_count |-> 0, subject |-> it[i].subject,
                 offset |-> it[i].offset, options |-> it[i].options,
                 ovector |-> it[i].ovector, lastrc |-> "cloned",
                 lastend |-> it[i].lastend]]
    /\ code' = Engine_refcount(code, 1)
    /\ ret' = Returned("clone", NextSlot, i)
    /\ UNCHANGED <<pcre, heap, subject, held, passed>>

\* Mutant: the clone shares the handle without counting itself as an owner.
MatchIterator_clone_NoRef(i) ==
    /\ Alive(i)
    /\ FreeSlots # {}
    /\ it' = [it EXCEPT ![NextSlot] =
                [state |-> "alive", code |-> it[i].code, extra |-> it[i].extra,
                 capture_count |-> it[i].capture_count, subject |-> it[i].subject,
                 offset |-> it[i].offset, options |-> it[i].options,
                 ovector |-> it[i].ovector, lastrc |-> "cloned",
                 lastend |-> it[i].lastend]]
    /\ ret' = Returned("clone", NextSlot, i)
    /\ UNCHANGED <<pcre, code, heap, subject, held, passed>>

\* Mutant: the clone scans the subject from its start.
MatchIterator_clone_Restart(i) ==
    /\ Alive(i)
    /\ FreeSlots # {}
    /\ it' = [it EXCEPT ![NextSlot] =
                [state |-> "alive", code |-> it[i].code, extra |-> it[i].extra,
                 capture_count |-> it[i].capture_count, subject |-> it[i].subject,
                 offset |-> 0, options |-> it[i].options,
                 ovector |-> it[i].ovector, lastrc |-> "cloned",
                 lastend |-> it[i].lastend]]
    /\ code' = Engine_refcount(code, 1)
    /\ ret' = Returned("clone", NextSlot, i)
    /\ UNCHANGED <<pcre, heap, subject, held, passed>>

MatchIterator_clone(i) ==
    /\ Alive(i)
    /\ FreeSlots # {}
    /\ it' = [it EXCEPT ![NextSlot] =
                [state |-> "alive", code |-> it[i].code, extra |-> it[i].extra,
                 capture_count |-> it[i].capture_count, subject |-> it[i].subject,
                 offset |-> it[i].offset, options |-> it[i].options,
                 ovector |-> it[i].ovector, lastrc |-> "cloned",
                 lastend |-> it[i].lastend]]
    /\ code' = Engine_refcount(code, 1)
    /\ ret' = Returned("clone", NextSlot, i)
    /\ UNCHANGED <<pcre, heap, subject, held, passed>>

\* Mutant: the last owner to go frees the handle and leaves the study data.
MatchIterator_drop_LeaksExtra(i) ==
    /\ Alive(i)
    /\ LET c == Engine_refcount(code, -1)
       IN  code' = IF c.refcount = 0 THEN Engine_free(c, i) ELSE c
    /\ it' = [it EXCEPT ![i] = Dropped]
    /\ ret' = Unit
    /\ UNCHANGED <<pcre, heap, subject, held, passed>>

MatchIterator_drop(i) ==
    /\ Alive(i)
    /\ LET c == Engine_refcount(code, -1)
       IN  IF c.refcount = 0
             THEN /\ heap' = Engine_free_study(heap, it[i].extra)
                  /\ code' = Engine_free(c, i)
             ELSE /\ code' = c
                  /\ UNCHANGED heap
    /\ it' = [it EXCEPT ![i] = Dropped]
    /\ ret' = Unit
    /\ UNCHANGED <<pcre, subject, held, passed>>

\* What the engine is handed at a next() call of iterator i: was the Pcre still
\* there, the extra pointer and what the block holds, were the handle and the
\* extra block unfreed, and, with the Mark flag set, was the mark destination
\* still there.
EngineSaw(i) ==
    LET e == it[i].extra
    IN  [pcreAlive |-> pcre.state = "alive",
         extra |-> e,
         block |-> IF e = NULL THEN NoBlock ELSE heap[e],
         codeLive |-> code.freed = 0,
         extraLive |-> (e = NULL \/ heap[e].freed = 0),
         markLive |-> (e = NULL \/ "ExtraMark" \notin heap[e].flags
                       \/ pcre.state = "alive")]

\* Whether this next() call repeats the one before it: the same iterator, called
\* twice in a row from the same offset with a match each time (told apart from
\* its predecessor by parity).
Again(i, rc) ==
    IF ret.op = "next" /\ ret.by = i /\ ret.val.prev = it[i].offset
       /\ ret.val.result.kind = "match" /\ rc >= 0
      THEN 1 - ret.val.again ELSE 0

\* The bookkeeping of next() once the engine has returned r: the offset vector
\* as the engine left it, the new scan offset, the Option<Match> handed back.
NextReturns(i, r, offset, result) ==
    /\ it' = [it EXCEPT ![i].ovector = r.ovector,
                        ![i].offset = offset,
                        ![i].lastrc = IF result.kind = "match" THEN "match"
                                      ELSE IF r.rc = PCRE_ERROR_NOMATCH
                                        THEN "nomatch" ELSE "error",
                        ![i].lastend = IF result.kind = "match"
                                         THEN result.partial_ovector[2]
                                         ELSE it[i].lastend]
    /\ ret' = Returned("next", i,
                       [prev |-> it[i].offset, result |-> result,
                        before |-> it[i].lastrc, prevEnd |-> it[i].lastend,
                        saw |-> EngineSaw(i), again |-> Again(i, r.rc)])
    /\ UNCHANGED <<pcre, code, heap, subject, held, passed>>

\* Mutant: the scan resumes at the start of the match, not at its end.
MatchIterator_next_FromStart(i) ==
    /\ Alive(i)
    /\ \E r \in ExecOutcomes(it[i].extra, it[i].subject, it[i].offset,
                             it[i].options, it[i].ovector) :
          IF r.rc >= 0
            THEN NextReturns(i, r, r.ovector[1], Match(r.ovector, it[i].capture_count, r.rc))
            ELSE NextReturns(i, r, it[i].offset, None)

\* Mutant: an iterator that found nothing starts over.
MatchIterator_next_Rewind(i) ==
    /\ Alive(i)
    /\ \E r \in ExecOutcomes(it[i].extra, it[i].subject, it[i].offset,
                             it[i].options, it[i].ovector) :
          IF r.rc >= 0
            THEN NextReturns(i, r, r.ovector[2], Match(r.ovector, it[i].capture_count, r.rc))
            ELSE NextReturns(i, r, 0, None)

\* Mutant: the Match is given the whole offset vector, workspace included.
MatchIterator_next_WholeVector(i) ==
    /\ Alive(i)
    /\ \E r \in ExecOutcomes(it[i].extra, it[i].subject, it[i].offset,
                             it[i].options, it[i].ovector) :
          IF r.rc >= 0
            THEN NextReturns(i, r, r.ovector[2],
                             [kind |-> "match", partial_ovector |-> r.ovector,
                              string_count_ |-> r.rc, borrows |-> 0])
            ELSE NextReturns(i, r, it[i].offset, None)

\* Mutant: the Match is handed a slice of the iterator's offset vector, no copy.
MatchIterator_next_Borrows(i) ==
    /\ Alive(i)
    /\ \E r \in ExecOutcomes(it[i].extra, it[i].subject, it[i].offset,
                             it[i].options, it[i].ovector) :
          IF r.rc >= 0
            THEN NextReturns(i, r, r.ovector[2],
                             [Match(r.ovector, it[i].capture_count, r.rc)
                                 EXCEPT !.borrows = i])
            ELSE NextReturns(i, r, it[i].offset, None)

MatchIterator_next(i) ==
    /\ Alive(i)
    /\ \E r \in ExecOutcomes(it[i].extra, it[i].subject, it[i].offset,
                             it[i].options, it[i].ovector) :
          IF r.rc >= 0
            THEN NextReturns(i, r, r.ovector[2], Match(r.ovector, it[i].capture_count, r.rc))
            ELSE NextReturns(i, r, it[i].offset, None)

(***************************************************************************)
(* impl Match. A call either fails (a failed bounds check of the Vec or of  *)
(* the subject slice) or returns a value.                                  *)
(***************************************************************************)
\* `x as usize` for a c_int x: a negative x wraps to 2^w + x, w the width of usize.
as_usize(x) == IF x < 0 THEN [wrapped |-> TRUE, n |-> x] ELSE [wrapped |-> FALSE, n |-> x]
\* v[k] for a Vec or slice v and a 0-based index k
InBounds(v, k) == k >= 0 /\ k < Len(v)

string_count(m) == as_usize(m.string_count_)

group_start(m, n) ==
    IF ~InBounds(m.partial_ovector, n * 2) THEN Failure
    ELSE Ok(as_usize(m.partial_ovector[n * 2 + 1]))

group_end(m, n) ==
    IF ~InBounds(m.partial_ovector, n * 2 + 1) THEN Failure
    ELSE Ok(as_usize(m.partial_ovector[n * 2 + 2]))

\* slice_from(n * 2) fails beyond the end of the Vec; the slice is then indexed
\* at 1 and at 0.
group_len(m, n) ==
    IF n * 2 > Len(m.partial_ovector) THEN Failure
    ELSE LET group_offsets == SubSeq(m.partial_ovector, n * 2 + 1, Len(m.partial_ovector))
         IN  IF ~InBounds(group_offsets, 1) THEN Failure
             ELSE Ok(as_usize(group_offsets[2] - group_offsets[1]))

\* the subject's slice(start as usize, end as usize) fails unless
\* start <= end <= the subject's length.
group(m, n, s) ==
    IF n * 2 > Len(m.partial_ovector) THEN Failure
    ELSE LET group_offsets == SubSeq(m.partial_ovector, n * 2 + 1, Len(m.partial_ovector))
         IN  IF ~InBounds(group_offsets, 1) THEN Failure
             ELSE LET start == as_usize(group_offsets[1])
                      end == as_usize(group_offsets[2])
                  IN  IF start.wrapped \/ end.wrapped \/ start.n > end.n
                         \/ end.n > Len(s)
                        THEN Failure
                        ELSE Ok(SubSeq(s, start.n + 1, end.n))

\* The group indices a caller passes.
GroupArgs == 0..2

\* The accessors called on the Match the last next() returned: read, change
\* nothing.
Match_group(n) ==
    /\ ret.op = "next"
    /\ ret.val.result.kind = "match"
    /\ Alive(ret.by)
    /\ LET m == ret.val.result
       IN  /\ group_start(m, n).failed \in BOOLEAN
           /\ group_end(m, n).failed \in BOOLEAN
           /\ group_len(m, n).failed \in BOOLEAN
           /\ group(m, n, it[ret.by].subject).failed \in BOOLEAN
           /\ ~string_count(m).wrapped
    /\ UNCHANGED vars

Next ==
    \/ \E p \in Patterns : Pcre_compile_with_options(p)
    \/ Pcre_capture_count
    \/ Pcre_enable_mark
    \/ \E o \in 0..MaxLen, opts \in ExecOptionSets : Pcre_exec_from_with_options(o, opts)
    \/ Pcre_mark
    \/ \E opts \in ExecOptionSets : Pcre_matches_with_options(opts)
    \/ Pcre_name_count
    \/ Pcre_name_table
    \/ \E opts \in StudyOptionSets : Pcre_study_with_options(opts)
    \/ Pcre_drop
    \/ \E l \in Limits : Extra_set_match_limit(l)
    \/ \E l \in Limits : Extra_set_match_limit_recursion(l)
    \/ Extra_unset_mark
    \/ Extra_match_limit
    \/ Extra_match_limit_recursion
    \/ \E i \in Iters : MatchIterator_clone(i)
    \/ \E i \in Iters : MatchIterator_drop(i)
    \/ \E i \in Iters : MatchIterator_next(i)
    \/ \E n \in GroupArgs : Match_group(n)

Spec == Init /\ [][Next]_vars

(***************************************************************************)
(* Iteration to exhaustion: next() is called on a live iterator again and  *)
(* again (for i in re.matches(s) { ... }).                                 *)
(***************************************************************************)
SpecLive == Init /\ [][Next]_vars /\ \A i \in Iters : WF_vars(MatchIterator_next(i))

(***************************************************************************)
(* A Match kept by the caller while the iterator it came from goes on.     *)
(***************************************************************************)
\* The offset table read in a Match: the Match's own Vec, or, for a Match that
\* borrows, the front of the offset vector it borrows, as it is now.
Match_offsets(m) ==
    IF m.borrows = 0 THEN m.partial_ovector
    ELSE LET ovector == it[m.borrows].ovector
         IN  SubSeq(ovector, 1, IF Len(ovector) < Len(m.partial_ovector)
                                  THEN Len(ovector) ELSE Len(m.partial_ovector))

\* The caller keeps the Match the last next() returned, and notes the offsets
\* and the string count it reads in it.
Caller_keeps_match ==
    /\ ret.op = "next"
    /\ ret.val.result.kind = "match"
    /\ ~held.kept
    /\ held' = [kept |-> TRUE, by |-> ret.by, m |-> ret.val.result,
                offsets |-> Match_offsets(ret.val.result),
                count |-> string_count(ret.val.result)]
    /\ UNCHANGED <<pcre, code, heap, it, subject, ret, passed>>

NextHeld ==
    \/ \E p \in MatchPatterns : Pcre_compile_with_options(p)
    \/ \E opts \in ExecOptionSets : Pcre_matches_with_options(opts)
    \/ Pcre_drop
    \/ \E i \in Iters : MatchIterator_clone(i)
    \/ \E i \in Iters : MatchIterator_next(i)
    \/ \E i \in Iters : MatchIterator_drop(i)
    \/ Caller_keeps_match

SpecHeld == Init /\ [][NextHeld]_vars

(***************************************************************************)
(* The extra block an iterator passes to the engine, call after call,      *)
(* while the Pcre it came from is studied, marked and given limits.        *)
(***************************************************************************)
\* The extra pointer and block contents of the last next() call are noted.
Engine_passed_noted ==
    /\ ret.op = "next"
    /\ ~passed.noted
    /\ passed' = [noted |-> TRUE, by |-> ret.by, extra |-> ret.val.saw.extra,
                  block |-> ret.val.saw.block]
    /\ UNCHANGED <<pcre, code, heap, it, subject, ret, held>>

NextView ==
    \/ Pcre_compile_with_options(Pat("a*"))
    \/ \E opts \in StudyOptionSets : Pcre_study_with_options(opts)
    \/ Pcre_enable_mark
    \/ Extra_set_match_limit(5)
    \/ Pcre_matches_with_options({})
    \/ Pcre_drop
    \/ \E i \in Iters : MatchIterator_next(i)
    \/ \E i \in Iters : MatchIterator_drop(i)
    \/ Engine_passed_noted

SpecView == Init /\ [][NextView]_vars

(***************************************************************************)
(* Destruction run again: drop() entered a second time on a Pcre or a      *)
(* MatchIterator that drop() has already cleared. The body of drop() has   *)
(* no test of its own pointers: it asks the engine to lower the count of   *)
(* self.code, which is null by then. `engine_calls` lists the engine calls *)
(* the second run makes, with the handle each is given.                    *)
(***************************************************************************)
\* pcre_refcount on a null handle: an error code, no count to change.
PCRE_ERROR_NULL == -2
Engine_refcount_null == PCRE_ERROR_NULL

EngineCall(fn, handle) == [fn |-> fn, handle |-> handle]

Pcre_drop_again ==
    /\ pcre.state = "dropped"
    /\ LET rc == Engine_refcount_null
           calls == <<EngineCall("pcre_refcount", pcre.code)>>
       IN  ret' = Returned("drop_again", 0,
                           [engine_calls |->
                              IF rc = 0
                                THEN calls \o <<EngineCall("pcre_free_study", pcre.extra),
                                                EngineCall("pcre_free", pcre.code)>>
                                ELSE calls])
    /\ pcre' = [pcre EXCEPT !.extra = NULL, !.code = NULL]
    /\ UNCHANGED <<code, heap, it, subject, held, passed>>

MatchIterator_drop_again(i) ==
    /\ it[i].state = "dropped"
    /\ LET rc == Engine_refcount_null
           calls == <<EngineCall("pcre_refcount", it[i].code)>>
       IN  ret' = Returned("drop_again", i,
                           [engine_calls |->
                              IF rc = 0
                                THEN calls \o <<EngineCall("pcre_free_study", it[i].extra),
                                                EngineCall("pcre_free", it[i].code)>>
                                ELSE calls])
    /\ it' = [it EXCEPT ![i].extra = NULL, ![i].code = NULL]
    /\ UNCHANGED <<pcre, code, heap, subject, held, passed>>

NextDrop ==
    \/ \E p \in MatchPatterns : Pcre_compile_with_options(p)
    \/ \E opts \in ExecOptionSets : Pcre_matches_with_options(opts)
    \/ \E opts \in StudyOptionSets : Pcre_study_with_options(opts)
    \/ Pcre_drop
    \/ Pcre_drop_again
    \/ \E i \in Iters : MatchIterator_clone(i)
    \/ \E i \in Iters : MatchIterator_next(i)
    \/ \E i \in Iters : MatchIterator_drop(i)
    \/ \E i \in Iters : MatchIterator_drop_again(i)

SpecDrop == Init /\ [][NextDrop]_vars

(***************************************************************************)
(* Name tables: a Pcre compiled from a pattern with named groups, any name *)
(* table the engine can build (entries in name order, group numbers        *)
(* distinct, a name several times under DupNames).                         *)
(***************************************************************************)
NameBytes == {<<120>>, <<121>>, <<120, 121>>}
GroupNumbers == (1..MaxNames) \cup {258}
NameEntries == {<<n, name>> : n \in GroupNumbers, name \in NameBytes}

RECURSIVE LexLeq(_, _)
LexLeq(a, b) ==
    IF a = <<>> THEN TRUE
    ELSE IF b = <<>> THEN FALSE
    ELSE IF Head(a) # Head(b) THEN Head(a) < Head(b)
    ELSE LexLeq(Tail(a), Tail(b))

NameTables ==
    {t \in SeqsUpTo(NameEntries, MaxNames) :
        /\ \A k \in 1..(Len(t) - 1) : LexLeq(t[k][2], t[k + 1][2])
        /\ \A k, l \in 1..Len(t) : k # l => t[k][1] # t[l][1]}
NamedPatterns == {[src |-> "named", names |-> t] : t \in NameTables}

InitNames ==
    /\ \E p \in NamedPatterns :
          /\ pcre = CompiledPcre(p)
          /\ code = CompiledCode(p)
    /\ heap = <<>>
    /\ it = [i \in Iters |-> Unused]
    /\ subject = <<>>
    /\ ret = CompileOk
    /\ held = NoMatchHeld
    /\ passed = NothingPassed

NextNames ==
    \/ Pcre_name_count
    \/ Pcre_name_table

SpecNames == InitNames /\ [][NextNames]_vars

(***************************************************************************)
(* The four option families and their EnumSet indices (impl CLike).        *)
(***************************************************************************)
MaxIndex == 23

\* enum CompileOption: each variant with its native constant.
CompileOption ==
    [Caseless |-> 1,                \* 0x00000001
     Multiline |-> 2,               \* 0x00000002
     DotAll |-> 4,                  \* 0x00000004
     Extended |-> 8,                \* 0x00000008
     Anchored |-> 16,               \* 0x00000010
     DollarEndOnly |-> 32,          \* 0x00000020
     Extra |-> 64,                  \* 0x00000040
     Ungreedy |-> 512,              \* 0x00000200
     NoAutoCapture |-> 4096,        \* 0x00001000
     AutoCallout |-> 16384,         \* 0x00004000
     FirstLine |-> 262144,          \* 0x00040000
     DupNames |-> 524288,           \* 0x00080000
     NewlineCR |-> 1048576,         \* 0x00100000
     NewlineLF |-> 2097152,         \* 0x00200000
     NewlineCRLF |-> 3145728,       \* 0x00300000
     NewlineAny |-> 4194304,        \* 0x00400000
     NewlineAnyCRLF |-> 5242880,    \* 0x00500000
     BsrAnyCRLF |-> 8388608,        \* 0x00800000
     BsrUnicode |-> 16777216,       \* 0x01000000
     JavaScriptCompat |-> 33554432, \* 0x02000000
     Ucp |-> 536870912]             \* 0x20000000

\* enum ExecOption.
ExecOption ==
    [ExecAnchored |-> 16,               \* 0x00000010
     ExecNotBol |-> 128,                \* 0x00000080
     ExecNotEol |-> 256,                \* 0x00000100
     ExecNotEmpty |-> 1024,             \* 0x00000400
     ExecPartialSoft |-> 32768,         \* 0x00008000
     ExecNewlineCR |-> 1048576,         \* 0x00100000
     ExecNewlineLF |-> 2097152,         \* 0x00200000
     ExecNewlineCRLF |-> 3145728,       \* 0x00300000
     ExecNewlineAny |-> 4194304,        \* 0x00400000
     ExecNewlineAnyCRLF |-> 5242880,    \* 0x00500000
     ExecBsrAnyCRLF |-> 8388608,        \* 0x00800000
     ExecBsrUnicode |-> 16777216,       \* 0x01000000
     ExecNoStartOptimise |-> 67108864,  \* 0x04000000
     ExecPartialHard |-> 134217728,     \* 0x08000000
     ExecNotEmptyAtStart |-> 268435456] \* 0x10000000

\* enum ExtraOption.
ExtraOption ==
    [ExtraStudyData |-> 1,            \* 0x0001
     ExtraMatchLimit |-> 2,           \* 0x0002
     ExtraCalloutData |-> 4,          \* 0x0004
     ExtraTables |-> 8,               \* 0x0008
     ExtraMatchLimitRecursion |-> 16, \* 0x0010
     ExtraMark |-> 32,                \* 0x0020
     ExtraExecutableJit |-> 64]       \* 0x0040

\* enum StudyOption.
StudyOption ==
    [StudyJitCompile |-> 1,            \* 0x0001
     StudyJitPartialSoftCompile |-> 2, \* 0x0002
     StudyJitPartialHardCompile |-> 4, \* 0x0004
     StudyExtraNeeded |-> 8]           \* 0x0008

\* The numbered arms of each from_usize; every other number panics.
CompileOption_from_usize ==
    <<"Caseless", "Multiline", "DotAll", "Extended", "Anchored",
      "DollarEndOnly", "Extra", "Ungreedy", "NoAutoCapture", "AutoCallout",
      "FirstLine", "DupNames", "NewlineCR", "NewlineLF", "NewlineCRLF",
      "NewlineAny", "NewlineAnyCRLF", "BsrAnyCRLF", "BsrUnicode",
      "JavaScriptCompat", "Ucp">>

ExecOption_from_usize ==
    <<"ExecAnchored", "ExecNotBol", "ExecNotEol", "ExecNotEmpty",
      "ExecPartialSoft", "ExecNewlineCR", "ExecNewlineLF", "ExecNewlineCRLF",
      "ExecNewlineAny", "ExecNewlineAnyCRLF", "ExecBsrAnyCRLF",
      "ExecBsrUnicode", "ExecNoStartOptimise", "ExecPartialHard",
      "ExecNotEmptyAtStart">>

ExtraOption_from_usize ==
    <<"ExtraStudyData", "ExtraMatchLimit", "ExtraCalloutData", "ExtraTables",
      "ExtraMatchLimitRecursion", "ExtraMark", "ExtraExecutableJit">>

StudyOption_from_usize ==
    <<"StudyJitCompile", "StudyJitPartialSoftCompile",
      "StudyJitPartialHardCompile", "StudyExtraNeeded">>

\* The arms of each to_usize.
CompileOption_to_usize ==
    [Caseless |-> 1, Multiline |-> 2, DotAll |-> 3, Extended |-> 4,
     Anchored |-> 5, DollarEndOnly |-> 6, Extra |-> 7, Ungreedy |-> 8,
     NoAutoCapture |-> 9, AutoCallout |-> 10, FirstLine |-> 11,
     DupNames |-> 12, NewlineCR |-> 13, NewlineLF |-> 14, NewlineCRLF |-> 15,
     NewlineAny |-> 16, NewlineAnyCRLF |-> 17, BsrAnyCRLF |-> 18,
     BsrUnicode |-> 19, JavaScriptCompat |-> 20, Ucp |-> 21]

ExecOption_to_usize ==
    [ExecAnchored |-> 1, ExecNotBol |-> 2, ExecNotEol |-> 3,
     ExecNotEmpty |-> 4, ExecPartialSoft |-> 5, ExecNewlineCR |-> 6,
     ExecNewlineLF |-> 7, ExecNewlineCRLF |-> 8, ExecNewlineAny |-> 9,
     ExecNewlineAnyCRLF |-> 10, ExecBsrAnyCRLF |-> 11, ExecBsrUnicode |-> 12,
     ExecNoStartOptimise |-> 13, ExecPartialHard |-> 14,
     ExecNotEmptyAtStart |-> 15]

ExtraOption_to_usize ==
    [ExtraStudyData |-> 1, ExtraMatchLimit |-> 2, ExtraCalloutData |-> 3,
     ExtraTables |-> 4, ExtraMatchLimitRecursion |-> 5, ExtraMark |-> 6,
     ExtraExecutableJit |-> 7]

StudyOption_to_usize ==
    [StudyJitCompile |-> 1, StudyJitPartialSoftCompile |-> 2,
     StudyJitPartialHardCompile |-> 3, StudyExtraNeeded |-> 4]

Families == {"CompileOption", "ExecOption", "ExtraOption", "StudyOption"}

\* A family's variants with their native constants.
Native(f) ==
    CASE f = "CompileOption" -> CompileOption
      [] f = "ExecOption" -> ExecOption
      [] f = "ExtraOption" -> ExtraOption
      [] f = "StudyOption" -> StudyOption

Variants(f) == DOMAIN Native(f)

\* CLike::from_usize of family f: the variant of arm n, a task failure (panic!)
\* for a number without an arm.
from_usize(f, n) ==
    LET arms == CASE f = "CompileOption" -> CompileOption_from_usize
                  [] f = "ExecOption" -> ExecOption_from_usize
                  [] f = "ExtraOption" -> ExtraOption_from_usize
                  [] f = "StudyOption" -> StudyOption_from_usize
    IN  IF n \in DOMAIN arms THEN Ok(arms[n]) ELSE Failure

\* Mutant: the last two variants of a family share an index.
to_usize_Shared(f, o) ==
    LET arms == CASE f = "CompileOption" -> CompileOption_to_usize
                  [] f = "ExecOption" -> ExecOption_to_usize
                  [] f = "ExtraOption" -> ExtraOption_to_usize
                  [] f = "StudyOption" -> StudyOption_to_usize
    IN  IF arms[o] = Cardinality(DOMAIN arms) THEN arms[o] - 1 ELSE arms[o]

\* CLike::to_usize of family f.
to_usize(f, o) ==
    LET arms == CASE f = "CompileOption" -> CompileOption_to_usize
                  [] f = "ExecOption" -> ExecOption_to_usize
                  [] f = "ExtraOption" -> ExtraOption_to_usize
                  [] f = "StudyOption" -> StudyOption_to_usize
    IN  arms[o]

\* from_usize is called with a number: its result, and the index to_usize gives
\* the variant that came out.
CLike_from_usize(f, n) ==
    /\ ret' = Returned("from_usize", 0,
                 LET r == from_usize(f, n)
                 IN  [family |-> f, n |-> n, result |-> r,
                      index |-> IF r.failed THEN 0 ELSE to_usize(f, r.v)])
    /\ UNCHANGED <<pcre, code, heap, it, subject, held, passed>>

\* What is known of a variant: its index, its native constant, and the variant
\* from_usize makes of its index.
Indexed(f, o) ==
    [option |-> o, index |-> to_usize(f, o), native |-> Native(f)[o],
     back |-> from_usize(f, to_usize(f, o))]

\* to_usize is called on two variants of a family.
CLike_to_usize(f, o1, o2) ==
    /\ ret' = Returned("to_usize", 0,
                 [family |-> f, a |-> Indexed(f, o1), b |-> Indexed(f, o2)])
    /\ UNCHANGED <<pcre, code, heap, it, subject, held, passed>>

InitOptions ==
    /\ pcre = NoPcre
    /\ code = NoCode
    /\ heap = <<>>
    /\ it = [i \in Iters |-> Unused]
    /\ subject = <<>>
    /\ ret = Returned("init", 0, 0)
    /\ held = NoMatchHeld
    /\ passed = NothingPassed

NextOptions ==
    \/ \E f \in Families : \E n \in 0..MaxIndex : CLike_from_usize(f, n)
    \/ \E f \in Families : \E o1, o2 \in Variants(f) : CLike_to_usize(f, o1, o2)

SpecOptions == InitOptions /\ [][NextOptions]_vars

(***************************************************************************)
(* Properties.                                                             *)
(***************************************************************************)
Compiled == pcre.state \in {"alive", "dropped"}
LiveIters == {i \in Iters : Alive(i)}
Owners == (IF pcre.state = "alive" THEN 1 ELSE 0) + Cardinality(LiveIters)
NextCalled == ret.op = "next"
ReturnedNone == NextCalled /\ ret.val.result.kind = "none"
ReturnedMatch == NextCalled /\ ret.val.result.kind = "match"

\* C1: the native handle is freed exactly once, at the drop of the last owner
\* (the Pcre or an iterator or clone derived from it): it is unfreed while any
\* owner is alive, and freed once, not twice, when none is left.
C1_HandleFreedOnceAtLastDrop ==
    Compiled => code.freed = (IF Owners = 0 THEN 1 ELSE 0)

\* C1 witness: the Pcre went first, and the last iterator's drop freed the handle.
C1_Witness ==
    /\ pcre.state = "dropped"
    /\ \A i \in Iters : it[i].state = "dropped"
    /\ code.freed = 1
    /\ code.freedBy \in Iters

\* C2: with the Pcre dropped, every next() call of a surviving iterator hands the
\* engine a handle and an extra block that have not been freed.
C2_NextAfterPcreDropIsSafe ==
    (NextCalled /\ ~ret.val.saw.pcreAlive) =>
        (ret.val.saw.codeLive /\ ret.val.saw.extraLive)

\* C2 witness: a next() call after the drop of the Pcre, with an extra block,
\* that found a match.
C2_Witness ==
    /\ ReturnedMatch
    /\ ~ret.val.saw.pcreAlive
    /\ ret.val.saw.extra # NULL

\* C3: a study while the refcount is not 1 returns false, frees nothing, does
\* not call the engine's study and leaves the Pcre's extra pointer as it was.
C3_StudyRefusedWhileShared ==
    [][(ret'.op = "study" /\ code.refcount # 1) =>
          /\ ret'.val = FALSE
          /\ heap' = heap
          /\ code'.studies = code.studies
          /\ pcre'.extra = pcre.extra]_vars

\* C3 witness: a study refused with an iterator alive and an extra block held.
C3_Witness ==
    /\ ret.op = "study"
    /\ ret.val = FALSE
    /\ LiveIters # {}
    /\ pcre.extra # NULL
    /\ heap[pcre.extra].freed = 0

\* C4 (as claimed): after a next() that emitted an empty match, the scan offset
\* is at least one more than before the call.
C4_EmptyMatchAdvances ==
    (ReturnedMatch
        /\ ret.val.result.partial_ovector[1] = ret.val.result.partial_ovector[2])
    => it[ret.by].offset >= ret.val.prev + 1

\* C5 (as claimed): next() called again and again on a live iterator eventually
\* returns none.
C5_IterationEnds ==
    \A i \in Iters :
        Alive(i) ~> (~Alive(i) \/ it[i].lastrc \in {"nomatch", "error"})

\* C6: the scan offset never decreases: after a match it is that match's group-0
\* end, which is not before the offset the call started from; after none it is
\* unchanged.
C6_OffsetNeverDecreases ==
    NextCalled =>
        IF ret.val.result.kind = "match"
          THEN /\ it[ret.by].offset = ret.val.result.partial_ovector[2]
               /\ it[ret.by].offset >= ret.val.prev
          ELSE it[ret.by].offset = ret.val.prev

\* C6 witness: a second match, further on in the subject than the first.
C6_Witness ==
    /\ ReturnedMatch
    /\ ret.val.before = "match"
    /\ ret.val.prev > 0
    /\ it[ret.by].offset > ret.val.prev

C8_IterationAgreesWithExec ==
    (NextCalled /\ pcre.state = "alive") =>
        LET i == ret.by
            r == ret.val
        IN  /\ (r.before = "nocall" /\ it[i].options = {})
                  => r.result = exec(it[i].subject)
            /\ (r.before = "match")
                  => r.result = exec_from_with_options(it[i].subject, r.prevEnd,
                                                       it[i].options)

\* C8 witness: the second of two occurrences, found where the first one ended.
C8_Witness ==
    /\ ReturnedMatch
    /\ pcre.state = "alive"
    /\ ret.val.before = "match"
    /\ ret.val.prevEnd > 0
    /\ ret.val.result.partial_ovector[1] = ret.val.prevEnd
    /\ ret.val.result.partial_ovector[2] > ret.val.prevEnd

\* C9: capture_count() returns the count the engine gave at compile time, in
\* every state of a Pcre's life, and every iterator derived from it carries it.
C9_CaptureCountFixed ==
    Compiled =>
        /\ pcre.state = "alive" => capture_count = Engine_capturecount(code.pattern)
        /\ \A i \in LiveIters : it[i].capture_count = Engine_capturecount(code.pattern)

\* C9 witness: a pattern with a group, studied twice, with a clone that has
\* found a match.
C9_Witness ==
    /\ pcre.state = "alive"
    /\ capture_count = 1
    /\ code.studies = 2
    /\ \E i \in LiveIters : it[i].lastrc = "match" /\ ret = Returned("clone", 2, i)

\* The group numbers of the entries of an engine name table that carry `name`,
\* in table order.
RECURSIVE NumbersOf(_, _)
NumbersOf(names, name) ==
    IF names = <<>> THEN <<>>
    ELSE (IF Head(names)[2] = name THEN <<Head(names)[1]>> ELSE <<>>)
         \o NumbersOf(Tail(names), name)
RECURSIVE SumLen(_, _)
SumLen(table, keys) ==
    IF keys = {} THEN 0
    ELSE LET k == CHOOSE x \in keys : TRUE
         IN  Len(table[k]) + SumLen(table, keys \ {k})

\* C10: name_table() binds each name of the engine's table to the group numbers
\* of all the entries carrying it, in table order, and the group numbers of all
\* names together are name_count() many.
C10_NameTableAccumulates ==
    pcre.state = "alive" =>
        LET entries == code.pattern.names
        IN  /\ DOMAIN name_table = {entries[k][2] : k \in 1..Len(entries)}
            /\ \A name \in DOMAIN name_table :
                  name_table[name] = NumbersOf(entries, name)
            /\ SumLen(name_table, DOMAIN name_table) = name_count

\* C10 witness: a name listed twice, with a two-byte group number, beside another.
C10_Witness ==
    /\ pcre.state = "alive"
    /\ name_count = 3
    /\ <<120>> \in DOMAIN name_table
    /\ name_table[<<120>>] = <<258, 1>>
    /\ <<121>> \in DOMAIN name_table

\* C11 (as claimed): on a Match, each of group_start(n), group_end(n),
\* group_len(n) and group(n) fails for every index n >= string_count(), the
\* indices of trailing groups the engine left unset included.
C11_UnsetGroupAccessFails ==
    (ReturnedMatch /\ Alive(ret.by)) =>
        LET m == ret.val.result
        IN  \A n \in GroupArgs :
               n >= string_count(m).n =>
                   /\ group_start(m, n).failed
                   /\ group_end(m, n).failed
                   /\ group_len(m, n).failed
                   /\ group(m, n, it[ret.by].subject).failed

\* C12: enable_mark() returns true exactly when the Pcre holds an extra block.
\* Returning false it changes nothing; returning true it sets the Mark flag of
\* that block and points the block's mark field at the Pcre's mark_ slot, and
\* changes no other field of the block, no other block and nothing of the Pcre.
C12_EnableMarkNeedsExtra ==
    [][ret'.op = "enable_mark" =>
          /\ ret'.val = (pcre.extra # NULL)
          /\ pcre' = pcre /\ code' = code /\ it' = it
          /\ ~ret'.val => heap' = heap
          /\ ret'.val =>
                LET old == heap[pcre.extra]
                    new == heap'[pcre.extra]
                IN  /\ DOMAIN heap' = DOMAIN heap
                    /\ \A e \in DOMAIN heap : e # pcre.extra => heap'[e] = heap[e]
                    /\ "ExtraMark" \in new.flags
                    /\ new.mark = "pcre.mark_"
                    /\ new.flags \ {"ExtraMark"} = old.flags \ {"ExtraMark"}
                    /\ new.match_limit_ = old.match_limit_
                    /\ new.match_limit_recursion_ = old.match_limit_recursion_
                    /\ new.freed = old.freed]_vars

\* C12 witness: enable_mark() returned true on a block that carries study data
\* and a match limit, and has them still.
C12_Witness ==
    /\ ret = Returned("enable_mark", 0, TRUE)
    /\ pcre.extra # NULL
    /\ heap[pcre.extra].flags = {"ExtraStudyData", "ExtraMatchLimit", "ExtraMark"}
    /\ heap[pcre.extra].match_limit_ = 5

\* C13 (as claimed): match_limit_recursion() of a block is none when the block
\* comes from study, is the limit passed after each set_match_limit_recursion()
\* call, and is left as it was by every other setter.
C13_RecursionLimitIsLastSet ==
    [][/\ (ret'.op = "study" /\ ret'.val) =>
              ~PcreExtra_match_limit_recursion(heap'[pcre'.extra]).some
       /\ \A l \in Limits :
              Extra_set_match_limit_recursion(l) =>
                  PcreExtra_match_limit_recursion(heap'[pcre.extra])
                      = [some |-> TRUE, v |-> l]
       /\ ((\E l \in Limits : Extra_set_match_limit(l)) \/ Extra_unset_mark
             \/ (Pcre_enable_mark /\ pcre.extra # NULL)) =>
              PcreExtra_match_limit_recursion(heap'[pcre.extra])
                  = PcreExtra_match_limit_recursion(heap[pcre.extra])]_vars

\* C14 (as claimed): match_limit() of a block is none when the block comes
\* from study, is the limit passed after each set_match_limit() call, and is
\* left as it was, flag and value, by set_match_limit_recursion(), set_mark()
\* and unset_mark().
C14_MatchLimitIsLastSet ==
    [][/\ (ret'.op = "study" /\ ret'.val) =>
              ~PcreExtra_match_limit(heap'[pcre'.extra]).some
       /\ \A l \in Limits :
              Extra_set_match_limit(l) =>
                  PcreExtra_match_limit(heap'[pcre.extra]) = [some |-> TRUE, v |-> l]
       /\ ((\E l \in Limits : Extra_set_match_limit_recursion(l)) \/ Extra_unset_mark
             \/ (Pcre_enable_mark /\ pcre.extra # NULL)) =>
              PcreExtra_match_limit(heap'[pcre.extra])
                  = PcreExtra_match_limit(heap[pcre.extra])]_vars

\* C15: compile of a pattern with a null byte inside fails its task: no Pcre
\* comes back, neither one compiled from the text before the null byte nor any
\* other, and no native handle is made or referenced.
C15_NulPatternFailsCompile ==
    [][\A p \in NulPatterns :
          Pcre_compile_with_options(p) =>
              /\ ret'.val = Failure
              /\ pcre'.state # "alive"
              /\ code' = code /\ code'.refcount = 0]_vars

\* C15 witness: compile has failed its task, and there is no Pcre and no handle.
C15_Witness ==
    /\ ret = Returned("compile", 0, Failure)
    /\ pcre.state = "failed"
    /\ code = NoCode

\* C16: every extra block the engine's study returned is freed exactly once:
\* never twice, not while the Pcre or a live iterator points to it, and by the
\* time the last owner of the handle is gone every block has been freed.
C16_ExtraFreedExactlyOnce ==
    /\ \A e \in DOMAIN heap : heap[e].freed <= 1
    /\ \A i \in LiveIters : it[i].extra # NULL => heap[it[i].extra].freed = 0
    /\ (pcre.state = "alive" /\ pcre.extra # NULL) => heap[pcre.extra].freed = 0
    /\ (Compiled /\ Owners = 0) => \A e \in DOMAIN heap : heap[e].freed = 1

\* C16 witness: two blocks, the first freed by the study that replaced it, the
\* second by the drop of the last iterator, after the Pcre.
C16_Witness ==
    /\ Compiled /\ Owners = 0
    /\ Len(heap) = 2
    /\ heap[1].freedAt = 1 /\ heap[2].freedAt = 2
    /\ code.freedBy \in Iters

\* C17: a study by the sole owner (refcount 1) releases the previous extra
\* block, if any, before the engine's study is called (the engine has served
\* as many study calls at that release as before this call), touches no other
\* block, and returns true exactly when the Pcre holds an extra block
\* afterwards, which is then the new block the engine made.
C17_StudyReplacesExtra ==
    [][(ret'.op = "study" /\ code.refcount = 1) =>
          /\ code'.studies = code.studies + 1
          /\ pcre.extra # NULL =>
                /\ heap'[pcre.extra].freed = heap[pcre.extra].freed + 1
                /\ heap'[pcre.extra].freedAt = code.studies
          /\ \A e \in DOMAIN heap : e # pcre.extra => heap'[e] = heap[e]
          /\ ret'.val = (pcre'.extra # NULL)
          /\ pcre'.extra # NULL =>
                /\ pcre'.extra \notin DOMAIN heap
                /\ heap'[pcre'.extra] = NewExtra
          /\ pcre'.extra = NULL => DOMAIN heap' = DOMAIN heap]_vars

\* C17 witness: a second study, which replaced the block of the first.
C17_Witness ==
    /\ ret = Returned("study", 0, TRUE)
    /\ pcre.extra = 2
    /\ heap[1].freed = 1
    /\ heap[2].freed = 0

\* C18 (as claimed): a drop leaves the handle and extra pointers of the dropped
\* Pcre or MatchIterator null, and drop() run a second time on it changes no
\* count, frees nothing and makes no engine call on a null or freed handle.
C18_SecondDropIsNoOp ==
    [][/\ pcre'.state = "dropped" => (pcre'.code = NULL /\ pcre'.extra = NULL)
       /\ \A i \in Iters :
              it'[i].state = "dropped" => (it'[i].code = NULL /\ it'[i].extra = NULL)
       /\ ret'.op = "drop_again" =>
              /\ code' = code /\ heap' = heap
              /\ \A k \in DOMAIN ret'.val.engine_calls :
                     /\ ret'.val.engine_calls[k].handle # NULL
                     /\ code.freed = 0]_vars

\* C19: a Match that next() returned reads the same afterwards, offsets and
\* string count, whatever is done to the iterator since: further next() calls,
\* clones, its drop.
C19_MatchOutlivesIteration ==
    held.kept =>
        /\ Match_offsets(held.m) = held.offsets
        /\ string_count(held.m) = held.count

\* C19 witness: the iterator has since found another match, at other offsets,
\* and its clone has come and gone; the kept Match is there.
C19_Witness ==
    /\ held.kept
    /\ Alive(held.by)
    /\ it[held.by].lastrc = "match"
    /\ SubSeq(it[held.by].ovector, 1, Len(held.offsets)) # held.offsets
    /\ \E j \in Iters : j # held.by /\ it[j].state = "dropped"

\* The Matches the next k calls of next() return for an iterator value, up to
\* the first none.
RECURSIVE RemainingMatches(_, _)
RemainingMatches(iter, k) ==
    IF k = 0 THEN <<>>
    ELSE LET r == Engine_exec(code.pattern, iter.extra, iter.subject, iter.offset,
                              iter.options, iter.ovector)
         IN  IF r.rc < 0 THEN <<>>
             ELSE <<Match(r.ovector, iter.capture_count, r.rc)>>
                  \o RemainingMatches([iter EXCEPT !.offset = r.ovector[2],
                                                   !.ovector = r.ovector], k - 1)

\* C20: clone() gives an iterator with the subject, options, capture count and
\* scan offset of the original, and adds exactly one to the native refcount;
\* the two then yield the same remaining matches. A next() or a drop of one
\* iterator leaves the scan offset and offset vector of every other unchanged.
C20_CloneIsIndependent ==
    [][/\ ret'.op = "clone" =>
              LET new == it'[ret'.by]
                  orig == it[ret'.val]
              IN  /\ new.state = "alive"
                  /\ new.subject = orig.subject
                  /\ new.options = orig.options
                  /\ new.capture_count = orig.capture_count
                  /\ new.offset = orig.offset
                  /\ code'.refcount = code.refcount + 1
                  /\ it'[ret'.val] = orig
                  /\ RemainingMatches(new, MaxLen + 2)
                        = RemainingMatches(orig, MaxLen + 2)
       /\ \A i \in Iters :
              ((ret'.op = "next" /\ ret'.by = i)
                 \/ (Alive(i) /\ it'[i].state = "dropped")) =>
                  \A j \in Iters \ {i} :
                     /\ it'[j].offset = it[j].offset
                     /\ it'[j].ovector = it[j].ovector]_vars

\* C20 witness: a clone made in mid-iteration, with matches still to come, whose
\* original has since moved on while the clone has not.
C20_Witness ==
    /\ ReturnedMatch
    /\ \E j \in LiveIters :
          /\ j # ret.by
          /\ it[j].lastrc = "cloned"
          /\ it[j].offset > 0
          /\ it[j].offset = ret.val.prev
          /\ it[ret.by].offset > it[j].offset
          /\ RemainingMatches(it[j], MaxLen + 2) # <<>>

\* C21: exec_from_with_options() returns what one engine call on a zeroed
\* offset vector of 3 * (capture_count + 1) entries gives: for a result code
\* rc >= 0 a Match with string count rc and the first 2 * (capture_count + 1)
\* entries the engine left in the vector, for every negative result code none.
C21_ExecFromEngineResult ==
    pcre.state = "alive" =>
        \A startoffset \in 0..Len(subject), options \in ExecOptionSets :
           LET n == Engine_capturecount(code.pattern) + 1
               r == Engine_exec(code.pattern, pcre.extra, subject, startoffset,
                                options, Zeros(3 * n))
               result == exec_from_with_options(subject, startoffset, options)
           IN  /\ (result.kind = "match") = (r.rc >= 0)
               /\ r.rc >= 0 =>
                     /\ result.string_count_ = r.rc
                     /\ result.partial_ovector = SubSeq(r.ovector, 1, 2 * n)
               /\ r.rc < 0 => result = None

\* C21 witness: with an extra block and a match limit in force, on one subject
\* a match with a captured group from offset 0, a match without it from offset
\* 1, and none from offset 2.
C21_Witness ==
    /\ pcre.state = "alive"
    /\ pcre.extra # NULL
    /\ PcreExtra_match_limit(heap[pcre.extra]).some
    /\ subject = <<"a", "b">>
    /\ exec_from_with_options(subject, 0, {}) = Match(<<0, 2, 0, 1>>, 1, 2)
    /\ exec_from_with_options(subject, 1, {}) = Match(<<1, 2, -1, -1>>, 1, 1)
    /\ exec_from_with_options(subject, 2, {}) = None

\* C22 (as claimed): at every next() call an iterator hands the engine an extra
\* block with the contents (flags, match limits, mark destination) it handed
\* it at its earlier calls, whatever was done to the Pcre in between.
C22_SameExtraContents ==
    (NextCalled /\ passed.noted /\ passed.by = ret.by) =>
        ret.val.saw.block = passed.block

\* C22 (amended): at every next() call an iterator hands the engine the extra
\* block it handed it at its earlier calls: the same pointer, and behind it a
\* block that has not been freed and still carries its study data.
C22_SameExtraBlock ==
    (NextCalled /\ passed.noted /\ passed.by = ret.by) =>
        /\ ret.val.saw.extra = passed.extra
        /\ ret.val.saw.extraLive
        /\ passed.extra # NULL =>
              /\ ret.val.saw.block.freed = 0
              /\ ("ExtraStudyData" \in ret.val.saw.block.flags)
                    = ("ExtraStudyData" \in passed.block.flags)

\* C22 witness: a later next() call of the iterator, after the Pcre was given a
\* match limit and mark tracking: the same block, with other contents.
C22_Witness ==
    /\ NextCalled /\ passed.noted /\ passed.by = ret.by
    /\ passed.extra # NULL
    /\ ret.val.saw.extra = passed.extra
    /\ passed.block.flags = {"ExtraStudyData"}
    /\ ret.val.saw.block.flags = {"ExtraStudyData", "ExtraMatchLimit", "ExtraMark"}

\* C23: the native handle's reference count equals the number of live owners of
\* the handle: one for the Pcre until it is dropped, plus one for every live
\* iterator, clones included.  It is therefore 1 after a successful compile,
\* one more after matches and clone, one less after a drop, and as it was
\* after every other operation.
C23_RefcountIsOwners ==
    Compiled => code.refcount = Owners

\* C23 witness: the Pcre, an iterator and its clone all hold the handle.
C23_Witness ==
    /\ pcre.state = "alive"
    /\ ret.op = "clone"
    /\ Cardinality(LiveIters) = 2
    /\ code.refcount = 3

\* C24: whenever an iterator calls the engine with an extra block whose Mark flag
\* is set, the Pcre whose mark_ field the block's mark destination points to is
\* still alive.
C24_MarkDestinationAlive ==
    NextCalled => ret.val.saw.markLive

\* C25: in each of the four option families the set index is a bijection between
\* the variants and 1..N: to_usize gives every variant an index in 1..N and
\* distinct variants distinct indices, from_usize gives back the variant whose
\* index it is handed and fails for every number outside 1..N, and distinct
\* variants of a family have distinct native constants.
C25_IndexIsBijection ==
    /\ ret.op = "to_usize" =>
          LET a == ret.val.a
              b == ret.val.b
              N == Cardinality(Variants(ret.val.family))
          IN  /\ a.index \in 1..N
              /\ a.back = Ok(a.option)
              /\ a.option # b.option =>
                    (a.index # b.index /\ a.native # b.native)
    /\ ret.op = "from_usize" =>
          LET N == Cardinality(Variants(ret.val.family))
          IN  IF ret.val.n \in 1..N
                THEN /\ ~ret.val.result.failed
                     /\ ret.val.result.v \in Variants(ret.val.family)
                     /\ ret.val.index = ret.val.n
                ELSE ret.val.result = Failure

\* C25 witness: the two highest compile options, with their indices 20 and 21
\* and their native constants.
C25_Witness ==
    /\ ret.op = "to_usize"
    /\ ret.val.family = "CompileOption"
    /\ ret.val.a.option = "JavaScriptCompat" /\ ret.val.a.index = 20
    /\ ret.val.b.option = "Ucp" /\ ret.val.b.index = 21
    /\ ret.val.b.native = 536870912
    /\ ret.val.b.back = Ok("Ucp")

====
